---- MODULE Spec2Model ----
(***************************************************************************)
(* bubblechat: a terminal chat client built on the bubbletea event loop.   *)
(* The model follows the current program text, src/main.go lines 282-721   *)
(* (lines 1-281 hold an earlier revision without the header): the model    *)
(* struct and its Update handler, the two commands GetResponseCmd and      *)
(* GetStatusCmd that run as goroutines of the runtime, and the package     *)
(* variable chatMessages those goroutines append to.                       *)
(*                                                                         *)
(* Strings are sequences of one-character strings; a styled string is the  *)
(* text between a colour token and a "reset" token.                        *)
(*                                                                         *)
(* Of the commands of the textarea (textInputCmd) the model has Paste,     *)
(* whose result comes back to Update.  Not modelled: the cursor-blink and  *)
(* scroll commands of the textarea and the viewport, which carry no state  *)
(* of the program, and the viewport's scroll offset, which stays 0 for the *)
(* transcripts the bounds allow (fewer lines than viewportHeight).         *)
(***************************************************************************)
EXTENDS Integers, Sequences, FiniteSets, Bags

VARIABLES
    m,              \* the model struct held by the event loop
    chatMessages,   \* package variable: the history sent to the backend
    tasks,          \* GetResponseCmd goroutines, in dispatch order
    probe,          \* the GetStatusCmd goroutine
    ticks,          \* bag of spinner.TickMsg values on their way to Update
    pastes,         \* number of textarea.Paste commands whose result is on its way
    run,            \* "running", "quitting" (tea.Quit returned, its QuitMsg on its
                    \* way), "quit" or "crashed" (unrecovered panic)
    last,           \* the last Update call: its message, the model before, the commands returned
    nEvents,        \* number of messages the event loop has given to Update
    nExtra          \* number of messages given to Update that no command of the program produced

vars == <<m, chatMessages, tasks, probe, ticks, pastes, run, last, nEvents, nExtra>>

----------------------------------------------------------------------------
(* Bounds of the model: the number of messages the event loop processes in
   a run, and the number among them that no command of the program produced.
   A turn takes two messages of a run, its enter key and its responseMsg, which
   gives the number of submits of a run. *)

MaxEvents == 4
MaxSubmits == MaxEvents \div 2
MaxExtraStatus == 1

(* Program constants *)

CharLimit == 280
viewportTextWidth == 80
MiniDotFrames == 10
LineFrames == 4
HeaderSpinnerID == 1
ChatSpinnerID == 2

promptColor == "#cda9d6"
promptTextColor == "#fcfcfc"
promptPrefix == <<">", " ">>
responseColor == "#b7e4cf"
responseTextColor == "#e2cdb5"
responsePrefix == <<">", " ">>

MiniDot == <<"f0", "f1", "f2", "f3", "f4", "f5", "f6", "f7", "f8", "f9">>

(* Inputs *)

Chars == {"a", " "}
QuitKeys == {"ctrl+c", "q", "esc"}
\* textarea's key binding of Paste
PasteKeys == {"ctrl+v"}
\* what the clipboard holds when it can be read
Clipboard == {<<"a">>}
\* the content the backend returns for the i-th completion dispatched: replies
\* to different completions differ
ReplyTo(i) == [k \in 1..i |-> "r"]
Replies == {ReplyTo(i) : i \in 1..MaxSubmits}
ForeignIDs == {0, 3}
NoErr == "nil"

----------------------------------------------------------------------------
(* strings.TrimSpace *)

RECURSIVE TrimLeft(_)
TrimLeft(s) ==
    IF s # <<>> /\ Head(s) = " " THEN TrimLeft(Tail(s)) ELSE s

RECURSIVE TrimRight(_)
TrimRight(s) ==
    IF s # <<>> /\ s[Len(s)] = " " THEN TrimRight(SubSeq(s, 1, Len(s) - 1)) ELSE s

TrimSpace(s) == TrimRight(TrimLeft(s))

(* wordwrap.String of muesli/reflow, for text of spaces and word characters:
   a word is flushed with the spaces before it; a line break replaces those
   spaces when the word would pass the limit; spaces after the last word are
   dropped on Close. *)

AddWord(w) ==
    IF w.word # <<>>
    THEN [buf |-> w.buf \o w.space \o w.word, space |-> <<>>, word |-> <<>>,
          lineLen |-> w.lineLen + Len(w.space) + Len(w.word)]
    ELSE w

AddNewline(w) ==
    [w EXCEPT !.buf = Append(w.buf, "\n"), !.lineLen = 0, !.space = <<>>]

WrapChar(w, c, limit) ==
    IF c = " "
    THEN LET a == AddWord(w) IN [a EXCEPT !.space = Append(a.space, c)]
    ELSE LET a == [w EXCEPT !.word = Append(w.word, c)] IN
         IF a.lineLen + Len(a.space) + Len(a.word) > limit /\ Len(a.word) < limit
         THEN AddNewline(a)
         ELSE a

RECURSIVE WrapFrom(_, _, _)
WrapFrom(w, s, limit) ==
    IF s = <<>> THEN AddWord(w).buf
    ELSE WrapFrom(WrapChar(w, Head(s), limit), Tail(s), limit)

WordWrap(s, limit) ==
    WrapFrom([buf |-> <<>>, space |-> <<>>, word |-> <<>>, lineLen |-> 0], s, limit)

(* lipgloss Style.Render with a foreground colour *)
Render(color, str) == <<color>> \o str \o <<"reset">>

----------------------------------------------------------------------------
(* bubbles/spinner *)

NewSpinner(id) == [id |-> id, frame |-> 0, tag |-> 0]

\* a variant that does not look at the ID of the TickMsg
SpinnerAccepts_AnyID(s, msg) ==
    /\ msg.type = "tick"
    /\ ~(msg.tag > 0 /\ msg.tag # s.tag)

\* spinner.Model.Update: a TickMsg of another spinner, or one whose tag is set
\* and is not the expected one, is rejected; an accepted one advances the frame.
SpinnerAccepts(s, msg) ==
    /\ msg.type = "tick"
    /\ ~(msg.ID > 0 /\ msg.ID # s.id)
    /\ ~(msg.tag > 0 /\ msg.tag # s.tag)

SpinnerUpdate(s, msg, nframes) ==
    IF SpinnerAccepts(s, msg)
    THEN [s EXCEPT !.frame = (s.frame + 1) % nframes, !.tag = s.tag + 1]
    ELSE s

\* spinner.Model.Tick, the command: the TickMsg it will deliver
SpinnerTick(s) == [type |-> "tick", ID |-> s.id, tag |-> s.tag]

\* spinner.Model.View of the chat spinner (its Style is empty)
SpinnerView(s) == <<MiniDot[s.frame + 1]>>

(* bubbles/textarea: a rune key is inserted below the character limit, and
   so is the text of a pasteMsg, cut at the limit *)
TextareaUpdate(ta, msg) ==
    IF msg.type = "key" /\ msg.key \in (Chars \cup {"q"}) /\ Len(ta) < CharLimit
    THEN Append(ta, msg.key)
    ELSE IF msg.type = "paste"
    THEN SubSeq(ta \o msg.text, 1, IF Len(ta \o msg.text) < CharLimit
                                   THEN Len(ta \o msg.text) ELSE CharLimit)
    ELSE ta

\* textarea.Paste, the command
PasteCmd == [cmd |-> "Paste"]

\* the command textarea.Update returns (textInputCmd)
TextInputCmd(msg) ==
    IF msg.type = "key" /\ msg.key \in PasteKeys THEN {PasteCmd} ELSE {}

----------------------------------------------------------------------------
(* The model struct *)

NewHeader ==
    [statusSpinner |-> NewSpinner(HeaderSpinnerID),
     requestDone |-> FALSE, requestSuccess |-> FALSE]

initialModel ==
    [header |-> NewHeader,
     viewport |-> <<>>,
     messages |-> <<>>,
     textarea |-> <<>>,
     spinner |-> NewSpinner(ChatSpinnerID),
     waiting |-> FALSE,
     err |-> NoErr]

\* strings.Join(m.messages, "\n")
RECURSIVE JoinLines(_)
JoinLines(ms) ==
    IF ms = <<>> THEN <<>>
    ELSE IF Len(ms) = 1 THEN ms[1]
    ELSE ms[1] \o <<"\n">> \o JoinLines(Tail(ms))

\* the markdown renderer, an opaque pure function of its input
GlamourRender(str) == <<"glamour">> \o str

UpdateViewport(mm) ==
    [mm EXCEPT !.viewport =
        GlamourRender(JoinLines(mm.messages) \o <<"\n", "lrm">> \o <<"\n", " ">>)]

PromptEntry(message) ==
    Render(promptColor, promptPrefix) \o Render(promptTextColor, message)

SpinnerEntry(s) ==
    Render(responseColor, responsePrefix) \o SpinnerView(s)

ResponseEntry(message) ==
    Render(responseColor, responsePrefix) \o Render(responseTextColor, message)

\* a variant that appends without dropping the last entry
ReplaceLast_Appends(ms, e) == Append(ms, e)

\* append(m.messages[:len(m.messages)-1], e)
ReplaceLast(ms, e) == Append(SubSeq(ms, 1, Len(ms) - 1), e)

GetResponseCmd(message) == [cmd |-> "GetResponseCmd", message |-> message]
TickCmd(s) == [cmd |-> "Tick", msg |-> SpinnerTick(s)]
QuitCmd == [cmd |-> "Quit"]

Result(mm, cmds) == [m |-> mm, cmds |-> cmds, panic |-> FALSE]
Panic(mm) == [m |-> mm, cmds |-> {}, panic |-> TRUE]

----------------------------------------------------------------------------
(* model.Update, one operator per case of its type switch.  mm is the model
   after the unconditional updates at the top of Update. *)

\* a variant that returns no tea.Quit
UpdateQuit_NoQuit(mm) == Result(mm, {})

UpdateQuit(mm) == Result(mm, {QuitCmd})

\* a variant that appends the user entry without the placeholder
UpdateEnter_NoPlaceholder(mm) ==
    LET message == WordWrap(TrimSpace(mm.textarea), viewportTextWidth - 3)
        m1 == [mm EXCEPT !.messages = Append(mm.messages, PromptEntry(message))]
        m2 == UpdateViewport(m1)
        m3 == [m2 EXCEPT !.textarea = <<>>, !.waiting = TRUE]
    IN Result(m3, {TickCmd(m3.spinner), GetResponseCmd(message)})

\* a variant that appends nothing to the transcript
UpdateEnter_AppendsNothing(mm) ==
    LET message == WordWrap(TrimSpace(mm.textarea), viewportTextWidth - 3)
        m2 == UpdateViewport(mm)
        m3 == [m2 EXCEPT !.textarea = <<>>, !.waiting = TRUE]
    IN Result(m3, {TickCmd(m3.spinner), GetResponseCmd(message)})

\* a variant that leaves the textarea as it is
UpdateEnter_KeepsInput(mm) ==
    LET message == WordWrap(TrimSpace(mm.textarea), viewportTextWidth - 3)
        m1 == [mm EXCEPT !.messages =
                 Append(Append(mm.messages, PromptEntry(message)), SpinnerEntry(mm.spinner))]
        m2 == UpdateViewport(m1)
        m3 == [m2 EXCEPT !.waiting = TRUE]
    IN Result(m3, {TickCmd(m3.spinner), GetResponseCmd(message)})

UpdateEnter(mm) ==
    LET message == WordWrap(TrimSpace(mm.textarea), viewportTextWidth - 3)
        m1 == [mm EXCEPT !.messages =
                 Append(Append(mm.messages, PromptEntry(message)), SpinnerEntry(mm.spinner))]
        m2 == UpdateViewport(m1)
        m3 == [m2 EXCEPT !.textarea = <<>>, !.waiting = TRUE]
    IN Result(m3, {TickCmd(m3.spinner), GetResponseCmd(message)})

\* a variant that replaces the placeholder without UpdateViewport
UpdateChatTick_StaleViewport(mm, msg) ==
    IF ~mm.waiting THEN Result(mm, {})
    ELSE IF mm.messages = <<>> THEN Panic(mm)
    ELSE LET m1 == [mm EXCEPT !.spinner = SpinnerUpdate(mm.spinner, msg, MiniDotFrames)]
             m2 == [m1 EXCEPT !.messages = ReplaceLast(m1.messages, SpinnerEntry(m1.spinner))]
             m4 == [m2 EXCEPT !.textarea = <<>>]
         IN Result(m4, {TickCmd(m4.spinner)})

UpdateChatTick(mm, msg) ==
    IF ~mm.waiting THEN Result(mm, {})
    ELSE IF mm.messages = <<>> THEN Panic(mm)
    ELSE LET m1 == [mm EXCEPT !.spinner = SpinnerUpdate(mm.spinner, msg, MiniDotFrames)]
             m2 == [m1 EXCEPT !.messages = ReplaceLast(m1.messages, SpinnerEntry(m1.spinner))]
             m3 == UpdateViewport(m2)
             m4 == [m3 EXCEPT !.textarea = <<>>]
         IN Result(m4, {TickCmd(m4.spinner)})

\* a variant that keeps returning the header spinner's tick once requestDone
\* is set
UpdateHeaderTick_KeepsTicking(mm, msg) ==
    IF mm.header.requestDone THEN Result(mm, {TickCmd(mm.header.statusSpinner)})
    ELSE LET m1 == [mm EXCEPT !.header.statusSpinner =
                      SpinnerUpdate(mm.header.statusSpinner, msg, LineFrames)]
         IN Result(m1, {TickCmd(m1.header.statusSpinner)})

UpdateHeaderTick(mm, msg) ==
    IF mm.header.requestDone THEN Result(mm, {})
    ELSE LET m1 == [mm EXCEPT !.header.statusSpinner =
                      SpinnerUpdate(mm.header.statusSpinner, msg, LineFrames)]
         IN Result(m1, {TickCmd(m1.header.statusSpinner)})

UpdateTick(mm, msg) ==
    IF msg.ID = mm.spinner.id THEN UpdateChatTick(mm, msg)
    ELSE IF msg.ID = mm.header.statusSpinner.id THEN UpdateHeaderTick(mm, msg)
    ELSE Result(mm, {})

\* a variant that removes the placeholder when the completion failed
UpdateResponse_DropsOnError(mm, msg) ==
    LET m1 == [mm EXCEPT !.waiting = FALSE] IN
    IF msg.err # NoErr
    THEN Result([m1 EXCEPT !.err = msg.err,
                           !.messages = SubSeq(m1.messages, 1, Len(m1.messages) - 1)], {})
    ELSE LET message == WordWrap(msg.message, viewportTextWidth - 3)
             m2 == [m1 EXCEPT !.messages = ReplaceLast(m1.messages, ResponseEntry(message))]
         IN Result(UpdateViewport(m2), {})

UpdateResponse(mm, msg) ==
    LET m1 == [mm EXCEPT !.waiting = FALSE] IN
    IF msg.err # NoErr THEN Result([m1 EXCEPT !.err = msg.err], {})
    ELSE IF m1.messages = <<>> THEN Panic(m1)
    ELSE LET message == WordWrap(msg.message, viewportTextWidth - 3)
             m2 == [m1 EXCEPT !.messages = ReplaceLast(m1.messages, ResponseEntry(message))]
         IN Result(UpdateViewport(m2), {})

\* a variant that also ends the wait when the probe failed
UpdateStatus_EndsWait(mm, msg) ==
    LET m1 == [mm EXCEPT !.header.requestDone = TRUE] IN
    IF msg.err # NoErr THEN Result([m1 EXCEPT !.err = msg.err, !.waiting = FALSE], {})
    ELSE Result([m1 EXCEPT !.header.requestSuccess = TRUE], {})

UpdateStatus(mm, msg) ==
    LET m1 == [mm EXCEPT !.header.requestDone = TRUE] IN
    IF msg.err # NoErr THEN Result([m1 EXCEPT !.err = msg.err], {})
    ELSE Result([m1 EXCEPT !.header.requestSuccess = TRUE], {})

Update(mo, msg) ==
    LET m1 == [mo EXCEPT !.textarea = TextareaUpdate(mo.textarea, msg)]
        m2 == IF mo.waiting
              THEN [m1 EXCEPT !.spinner = SpinnerUpdate(m1.spinner, msg, MiniDotFrames)]
              ELSE m1
    IN CASE msg.type = "key" /\ msg.key \in QuitKeys -> UpdateQuit(m2)
         [] msg.type = "key" /\ msg.key = "enter" -> UpdateEnter(m2)
         [] msg.type = "tick" -> UpdateTick(m2, msg)
         [] msg.type = "response" -> UpdateResponse(m2, msg)
         [] msg.type = "status" -> UpdateStatus(m2, msg)
         [] msg.type = "error" -> Result([m2 EXCEPT !.err = msg.err], {})
         [] OTHER -> Result(m2, TextInputCmd(msg))

----------------------------------------------------------------------------
(* The runtime: it calls Update with one message at a time and starts each
   returned command as a goroutine. *)

NewTask(message) ==
    [pc |-> "appendUser", message |-> message, local |-> <<>>,
     err |-> NoErr, choices |-> <<>>]

TickCmds(cmds) == {c \in cmds : c.cmd = "Tick"}
PasteCmds(cmds) == {c \in cmds : c.cmd = "Paste"}
ResponseCmds(cmds) == {c \in cmds : c.cmd = "GetResponseCmd"}

RECURSIVE TickBag(_)
TickBag(cs) ==
    IF cs = {} THEN EmptyBag
    ELSE LET c == CHOOSE x \in cs : TRUE
         IN SetToBag({c.msg}) (+) TickBag(cs \ {c})

RECURSIVE TaskSeq(_)
TaskSeq(cs) ==
    IF cs = {} THEN <<>>
    ELSE LET c == CHOOSE x \in cs : TRUE
         IN <<NewTask(c.message)>> \o TaskSeq(cs \ {c})

\* the process has not ended
Alive == run \in {"running", "quitting"}

\* One pass of the event loop over msg, with the bag of ticks and the number
\* of pastes left in flight: Update is called and the commands it returns are
\* started.  tea.Quit is a command like the others: its QuitMsg is on its way
\* and the loop goes on until it receives it.
Loop(msg, ticksLeft, pastesLeft) ==
    LET r == Update(m, msg) IN
    /\ Alive
    /\ nEvents < MaxEvents
    /\ nEvents' = nEvents + 1
    /\ m' = r.m
    /\ last' = [msg |-> msg, before |-> m, cmds |-> r.cmds]
    /\ run' = IF r.panic THEN "crashed"
              ELSE IF QuitCmd \in r.cmds THEN "quitting"
              ELSE run
    /\ ticks' = ticksLeft (+) TickBag(TickCmds(r.cmds))
    /\ pastes' = pastesLeft + Cardinality(PasteCmds(r.cmds))
    /\ tasks' = tasks \o TaskSeq(ResponseCmds(r.cmds))
    /\ chatMessages' = chatMessages

\* The event loop receives the QuitMsg: program.Run returns and the process
\* ends, and with it every goroutine and the package variables.
QuitMsg ==
    /\ run = "quitting"
    /\ run' = "quit"
    /\ ticks' = EmptyBag
    /\ pastes' = 0
    /\ tasks' = <<>>
    /\ chatMessages' = <<>>
    /\ UNCHANGED <<m, probe, last, nEvents, nExtra>>

KeyMsg(k) == [type |-> "key", key |-> k]

Init ==
    /\ m = initialModel
    /\ chatMessages = <<>>
    /\ tasks = <<>>
    /\ probe = "running"
    /\ ticks = SetToBag({SpinnerTick(initialModel.header.statusSpinner)})
    /\ pastes = 0
    /\ run = "running"
    /\ last = [msg |-> [type |-> "init"], before |-> initialModel, cmds |-> {}]
    /\ nEvents = 0
    /\ nExtra = 0

TypeKey(c) ==
    /\ Loop(KeyMsg(c), ticks, pastes)
    /\ UNCHANGED <<probe, nExtra>>

QuitKey(k) ==
    /\ Loop(KeyMsg(k), ticks, pastes)
    /\ UNCHANGED <<probe, nExtra>>

EnterKey ==
    /\ Len(tasks) < MaxSubmits
    /\ Loop(KeyMsg("enter"), ticks, pastes)
    /\ UNCHANGED <<probe, nExtra>>

TickMsg(t) ==
    /\ BagIn(t, ticks)
    /\ Loop(t, ticks (-) SetToBag({t}), pastes)
    /\ UNCHANGED <<probe, nExtra>>

\* the key bound to Paste: textarea.Update returns the command Paste
PasteKey(k) ==
    /\ Loop(KeyMsg(k), ticks, pastes)
    /\ UNCHANGED <<probe, nExtra>>

\* Paste's goroutine has read the clipboard: its pasteMsg carries the text
PasteMsg(text) ==
    /\ pastes > 0
    /\ Loop([type |-> "paste", text |-> text], ticks, pastes - 1)
    /\ UNCHANGED <<probe, nExtra>>

\* Paste's goroutine could not read the clipboard: its pasteErrMsg is an error
PasteErrMsg ==
    /\ pastes > 0
    /\ Loop([type |-> "error", err |-> "pasteErr"], ticks, pastes - 1)
    /\ UNCHANGED <<probe, nExtra>>

----------------------------------------------------------------------------
(* GetResponseCmd's goroutine.  chatMessages is shared by every such goroutine
   without a lock, so each append is a read of the slice followed by a write. *)

\* line 672, read of chatMessages
TaskReadUser(i) ==
    /\ Alive
    /\ tasks[i].pc = "appendUser"
    /\ tasks' = [tasks EXCEPT ![i].pc = "storeUser", ![i].local = chatMessages]
    /\ UNCHANGED <<m, chatMessages, probe, ticks, pastes, run, last, nEvents, nExtra>>

\* line 672, write of chatMessages
TaskWriteUser(i) ==
    /\ Alive
    /\ tasks[i].pc = "storeUser"
    /\ chatMessages' = Append(tasks[i].local, [Role |-> "user", Content |-> tasks[i].message])
    /\ tasks' = [tasks EXCEPT ![i].pc = "call", ![i].local = <<>>]
    /\ UNCHANGED <<m, probe, ticks, pastes, run, last, nEvents, nExtra>>

\* lines 684-686: client.CreateChatCompletion returns (resp, err), each of err
\* and resp.Choices empty or not (an error comes with an empty response, or with
\* a response decoded in part); resp.Choices[0] panics when resp has no choice,
\* and the panic of a goroutine ends the process, and with it the other
\* goroutines and the package variables (the panicking one is kept, alone, as the
\* record of the crash); otherwise chatMessages is read for the append.
TaskCall(i, err, choices) ==
    /\ Alive
    /\ tasks[i].pc = "call"
    /\ IF choices = <<>>
       THEN /\ run' = "crashed"
            /\ tasks' = <<[tasks[i] EXCEPT !.pc = "panicked", !.err = err]>>
            /\ ticks' = EmptyBag
            /\ pastes' = 0
            /\ chatMessages' = <<>>
       ELSE /\ run' = run
            /\ tasks' = [tasks EXCEPT ![i].pc = "storeReply", ![i].err = err,
                                      ![i].choices = choices, ![i].local = chatMessages]
            /\ UNCHANGED <<ticks, pastes, chatMessages>>
    /\ UNCHANGED <<m, probe, last, nEvents, nExtra>>

\* lines 686-693: write of chatMessages, then the responseMsg is sent to the loop
TaskWriteReply(i) ==
    /\ Alive
    /\ tasks[i].pc = "storeReply"
    /\ chatMessages' = Append(tasks[i].local,
                              [Role |-> "assistant", Content |-> tasks[i].choices[1]])
    /\ tasks' = [tasks EXCEPT ![i].pc = "sent", ![i].local = <<>>]
    /\ UNCHANGED <<m, probe, ticks, pastes, run, last, nEvents, nExtra>>

ResponseOf(t) == [type |-> "response", message |-> t.choices[1], err |-> t.err]

ResponseMsg(i) ==
    /\ i \in DOMAIN tasks
    /\ tasks[i].pc = "sent"
    /\ LET r == Update(m, ResponseOf(tasks[i])) IN
        /\ Alive
        /\ nEvents < MaxEvents
        /\ nEvents' = nEvents + 1
        /\ m' = r.m
        /\ last' = [msg |-> ResponseOf(tasks[i]), before |-> m, cmds |-> r.cmds]
        /\ run' = IF r.panic THEN "crashed" ELSE run
    /\ tasks' = [tasks EXCEPT ![i].pc = "done"]
    /\ UNCHANGED <<chatMessages, probe, ticks, pastes, nExtra>>

----------------------------------------------------------------------------
(* GetStatusCmd's goroutine *)

StatusOf(err) == [type |-> "status", err |-> err]

\* GetStatusCmd: client.ListModels returns err (or nil); the statusMsg that
\* carries it is processed by Update.
GetStatusCmd(err) ==
    /\ probe = "running"
    /\ Loop(StatusOf(err), ticks, pastes)
    /\ probe' = "done"
    /\ UNCHANGED nExtra

\* Update handles every statusMsg it is given.  The program starts GetStatusCmd
\* once; this is a further statusMsg reaching Update after the probe's own
\* result has been processed.
LaterStatusMsg(err) ==
    /\ probe = "done"
    /\ nExtra < MaxExtraStatus
    /\ Loop(StatusOf(err), ticks, pastes)
    /\ nExtra' = nExtra + 1
    /\ UNCHANGED probe

\* Update handles every spinner.TickMsg it is given.  The program's own ticks
\* carry the ID of one of its two spinners; this is a TickMsg of neither: the
\* zero value (ID 0), or the ID of a third spinner (main's resetSpinner creates
\* one that is never shown).  Its tag, an unexported field, is 0.  These
\* messages share the budget of the further statusMsg values.
ForeignTickMsg(id) ==
    /\ nExtra < MaxExtraStatus
    /\ Loop([type |-> "tick", ID |-> id, tag |-> 0], ticks, pastes)
    /\ nExtra' = nExtra + 1
    /\ UNCHANGED probe

----------------------------------------------------------------------------

Next ==
    \/ \E c \in Chars : TypeKey(c)
    \/ \E k \in QuitKeys : QuitKey(k)
    \/ EnterKey
    \/ \E t \in BagToSet(ticks) : TickMsg(t)
    \/ \E i \in DOMAIN tasks : TaskReadUser(i)
    \/ \E i \in DOMAIN tasks : TaskWriteUser(i)
    \/ \E i \in DOMAIN tasks, e \in {NoErr, "chatErr"} :
          \E ch \in {<<>>, <<ReplyTo(i)>>} : TaskCall(i, e, ch)
    \/ \E i \in DOMAIN tasks : TaskWriteReply(i)
    \/ \E i \in DOMAIN tasks : ResponseMsg(i)
    \/ \E e \in {NoErr, "statusErr"} : GetStatusCmd(e)
    \/ \E e \in {NoErr, "statusErr"} : LaterStatusMsg(e)
    \/ \E id \in ForeignIDs : ForeignTickMsg(id)
    \/ \E k \in PasteKeys : PasteKey(k)
    \/ \E text \in Clipboard : PasteMsg(text)
    \/ PasteErrMsg
    \/ QuitMsg

Spec == Init /\ [][Next]_vars

----------------------------------------------------------------------------
(* The specification of the liveness properties.  The event loop reads every
   message sent to it, so a TickMsg in flight is processed in the end.  The
   budget of events keeps the tags of the spinners bounded; a TickMsg that
   Update drops (it returns the model as it is and no command) adds nothing
   to the state, so it is processed whatever is left of the budget and does not
   count.  The messages are those that start, feed and end the two tick
   chains: the submit, the quit key, the ticks, the completions and the
   probe. *)

\* Update drops the TickMsg t: a chat tick while waiting is false, a header
\* tick once requestDone is set
Dropped(t) ==
    \/ t.ID = m.spinner.id /\ ~m.waiting
    \/ t.ID = m.header.statusSpinner.id /\ m.header.requestDone

AppliedTickMsg(t) ==
    /\ ~Dropped(t)
    /\ TickMsg(t)

DroppedTickMsg(t) ==
    /\ Alive
    /\ BagIn(t, ticks)
    /\ Dropped(t)
    /\ m' = Update(m, t).m
    /\ last' = [msg |-> t, before |-> m, cmds |-> Update(m, t).cmds]
    /\ ticks' = (ticks (-) SetToBag({t})) (+) TickBag(TickCmds(Update(m, t).cmds))
    /\ UNCHANGED <<chatMessages, tasks, probe, pastes, run, nEvents, nExtra>>

LiveNext ==
    \/ TypeKey("a")
    \/ QuitKey("ctrl+c")
    \/ EnterKey
    \/ \E t \in BagToSet(ticks) : AppliedTickMsg(t)
    \/ \E t \in BagToSet(ticks) : DroppedTickMsg(t)
    \/ \E i \in DOMAIN tasks : TaskReadUser(i)
    \/ \E i \in DOMAIN tasks : TaskWriteUser(i)
    \/ \E i \in DOMAIN tasks, e \in {NoErr, "chatErr"} :
          \E ch \in {<<>>, <<ReplyTo(i)>>} : TaskCall(i, e, ch)
    \/ \E i \in DOMAIN tasks : TaskWriteReply(i)
    \/ \E i \in DOMAIN tasks : ResponseMsg(i)
    \/ \E e \in {NoErr, "statusErr"} : GetStatusCmd(e)
    \/ QuitMsg

LiveSpec ==
    /\ Init /\ [][LiveNext]_vars
    /\ WF_vars(\E t \in BagToSet(ticks) : DroppedTickMsg(t))
    /\ WF_vars(QuitMsg)

----------------------------------------------------------------------------
(* Vocabulary of the properties *)

IsEnter(msg) == msg.type = "key" /\ msg.key = "enter"

\* a chat completion is outstanding from its dispatch until Update has
\* processed its responseMsg
Outstanding == {i \in DOMAIN tasks : tasks[i].pc # "done"}
Completed == {i \in DOMAIN tasks : tasks[i].pc = "done"}

IsPlaceholder(e) ==
    \E f \in 1..MiniDotFrames : e = Render(responseColor, responsePrefix) \o <<MiniDot[f]>>

IsUserEntry(e) ==
    Len(e) >= 4 /\ SubSeq(e, 1, 4) = Render(promptColor, promptPrefix)

IsAssistantEntry(e) ==
    Len(e) >= 4 /\ SubSeq(e, 1, 4) = Render(responseColor, responsePrefix)

Placeholders(ms) == {i \in DOMAIN ms : IsPlaceholder(ms[i])}

HeaderStatus(mm) ==
    IF ~mm.header.requestDone THEN "pending"
    ELSE IF mm.header.requestSuccess THEN "succeeded"
    ELSE "failed"

----------------------------------------------------------------------------
(* C1: while waiting is true an enter key is ignored: the transcript is as it
   was, waiting stays true and no chat completion is dispatched. *)
C1_SubmitWhileWaitingIgnored ==
    (Alive /\ IsEnter(last.msg) /\ last.before.waiting) =>
        /\ m.messages = last.before.messages
        /\ m.waiting
        /\ ResponseCmds(last.cmds) = {}

(* C2: at most one chat completion is outstanding in every reachable state. *)
C2_AtMostOneOutstanding ==
    Alive => Cardinality(Outstanding) <= 1

(* C3: waiting is true exactly when some dispatched chat completion has not
   yet had its responseMsg processed. *)
C3_WaitingIffOutstanding ==
    Alive => (m.waiting <=> Outstanding # {})

(* C4: an enter key on a buffer that is empty after trimming appends nothing,
   leaves waiting as it was and dispatches no chat completion. *)
C4_EmptySubmitNoOp ==
    (Alive /\ IsEnter(last.msg) /\ TrimSpace(last.before.textarea) = <<>>) =>
        /\ m.messages = last.before.messages
        /\ m.waiting = last.before.waiting
        /\ ResponseCmds(last.cmds) = {}

(* C5: while waiting is true the transcript holds exactly one placeholder and
   it is the last entry. *)
C5_OnePlaceholderLast ==
    (Alive /\ m.waiting) =>
        /\ Cardinality(Placeholders(m.messages)) = 1
        /\ m.messages # <<>>
        /\ IsPlaceholder(m.messages[Len(m.messages)])

(* C6: when N turns have completed and none is pending, the transcript has
   exactly 2N entries, a user entry at every odd position and an assistant
   entry at every even one. *)
C6_TranscriptTwoPerTurn ==
    (Alive /\ Outstanding = {}) =>
        /\ Len(m.messages) = 2 * Cardinality(Completed)
        /\ \A i \in DOMAIN m.messages :
              IF i % 2 = 1 THEN IsUserEntry(m.messages[i])
              ELSE IsAssistantEntry(m.messages[i])

C6_Witness ==
    /\ run = "running"
    /\ Outstanding = {}
    /\ Cardinality(Completed) = 2
    /\ Len(m.messages) = 4

(* C7: when N turns have completed and none is pending, chatMessages has
   exactly 2N entries, in the order user, assistant, user, assistant, ... *)
C7_HistoryTwoPerTurn ==
    (Alive /\ Outstanding = {}) =>
        /\ Len(chatMessages) = 2 * Cardinality(Completed)
        /\ \A i \in DOMAIN chatMessages :
              chatMessages[i].Role = IF i % 2 = 1 THEN "user" ELSE "assistant"

(* C8: once the header status has left pending it never changes: no message
   given to Update turns failed into succeeded or succeeded into failed. *)
C8_HeaderStatusFinal ==
    HeaderStatus(last.before) # "pending" => HeaderStatus(m) = HeaderStatus(last.before)

(* C9: a chat completion whose backend call fails still returns its
   responseMsg: no GetResponseCmd goroutine ends in a panic. *)
C9_FailedCompletionDelivered ==
    \A i \in DOMAIN tasks : tasks[i].pc # "panicked"

(* C10: a responseMsg with an error processed while waiting sets waiting to
   false and err to that error, leaves the transcript as it was with the
   placeholder as its last entry, and returns no command. *)
C10_ErrorResult ==
    (last.msg.type = "response" /\ last.msg.err # NoErr /\ last.before.waiting) =>
        /\ ~m.waiting
        /\ m.err = last.msg.err
        /\ m.messages = last.before.messages
        /\ m.messages # <<>>
        /\ IsPlaceholder(m.messages[Len(m.messages)])
        /\ last.cmds = {}

C10_Witness ==
    /\ last.msg.type = "response"
    /\ last.msg.err # NoErr
    /\ last.before.waiting
    /\ Len(m.messages) = 2

----------------------------------------------------------------------------
(* Vocabulary of the tick properties: the spinner a TickMsg belongs to, by its
   ID, in the model that received it *)

IsChatTick(msg, mm) == msg.type = "tick" /\ msg.ID = mm.spinner.id
IsHeaderTick(msg, mm) == msg.type = "tick" /\ msg.ID = mm.header.statusSpinner.id
IsForeignTick(msg, mm) ==
    msg.type = "tick" /\ ~IsChatTick(msg, mm) /\ ~IsHeaderTick(msg, mm)

(* C11: a TickMsg of neither spinner, a chat tick received while waiting is
   false and a header tick received once requestDone is set each leave the
   whole model as it was and return no command. *)
C11_StaleTickIgnored ==
    (\/ IsForeignTick(last.msg, last.before)
     \/ IsChatTick(last.msg, last.before) /\ ~last.before.waiting
     \/ IsHeaderTick(last.msg, last.before) /\ last.before.header.requestDone) =>
        /\ m = last.before
        /\ last.cmds = {}

(* C12: an entry of the transcript is never modified, overwritten or removed
   by a later message, except a placeholder in last position: every entry the
   transcript held before Update, other than such a placeholder, is the entry
   at the same position after it. *)
C12_RenderedImmutable ==
    \A i \in DOMAIN last.before.messages :
        (i < Len(last.before.messages) \/ ~IsPlaceholder(last.before.messages[i])) =>
            /\ i \in DOMAIN m.messages
            /\ m.messages[i] = last.before.messages[i]

(* C13: chatMessages and the transcript change only in a step in which Update
   processes a message (a step that counts an event); no step of a
   GetResponseCmd goroutine writes chatMessages.  The end of the process is
   not a write. *)
C13_HistoryWrittenByUpdateOnly ==
    [][(Alive' /\ nEvents' = nEvents) =>
          /\ chatMessages' = chatMessages
          /\ m'.messages = m.messages]_vars

(* C14: whenever waiting is false the transcript has an even number of
   entries. *)
C14_EvenWhenNotWaiting ==
    ~m.waiting => Len(m.messages) % 2 = 0

C14_Witness ==
    /\ last.msg.type = "response"
    /\ last.msg.err = NoErr
    /\ ~m.waiting
    /\ Len(m.messages) = 2
    /\ IsUserEntry(m.messages[1])
    /\ ~IsPlaceholder(m.messages[2])

IsQuit(msg) == msg.type = "key" /\ msg.key \in QuitKeys

\* the process has ended: program.Run has returned, or a panic has ended it
Ended == run \in {"quit", "crashed"}

(* C15: for a quit key, in whatever state it arrives, Update returns tea.Quit
   and nothing else and leaves the transcript, waiting and the header status
   as they were; once tea.Quit has been returned the process ends, whether or
   not a completion or the probe is outstanding: the QuitMsg can be received
   in every state that follows, and it is. *)
C15_QuitTerminates ==
    /\ [](IsQuit(last.msg) =>
            /\ last.cmds = {QuitCmd}
            /\ run # "running"
            /\ m.messages = last.before.messages
            /\ m.waiting = last.before.waiting
            /\ HeaderStatus(m) = HeaderStatus(last.before))
    /\ [](run = "quitting" => ENABLED QuitMsg)
    /\ IsQuit(last.msg) ~> Ended

C15_Witness ==
    /\ IsQuit(last.msg)
    /\ run = "quit"
    /\ m.waiting
    /\ Len(m.messages) = 2
    /\ probe = "running"
    /\ HeaderStatus(m) = "pending"

(* C16: a TickMsg with the header spinner's ID never changes the chat spinner,
   the transcript or waiting, also when waiting is true and the chat spinner
   is given the message at the top of Update; a TickMsg with the chat
   spinner's ID never changes the header spinner or the header status. *)
C16_SpinnersNotConfused ==
    /\ IsHeaderTick(last.msg, last.before) =>
          /\ m.spinner = last.before.spinner
          /\ m.messages = last.before.messages
          /\ m.waiting = last.before.waiting
    /\ IsChatTick(last.msg, last.before) =>
          /\ m.header.statusSpinner = last.before.header.statusSpinner
          /\ HeaderStatus(m) = HeaderStatus(last.before)

C16_Witness ==
    /\ IsHeaderTick(last.msg, last.before)
    /\ last.before.waiting
    /\ m.header.statusSpinner.frame = 1
    /\ m.spinner.frame = 0
    /\ TickCmds(last.cmds) # {}

\* the message a submit sends: the textarea's value, trimmed and wrapped
Submitted(mm) == WordWrap(TrimSpace(mm.textarea), viewportTextWidth - 3)

(* C17: an enter key on a buffer that is not empty after trimming, processed
   while waiting is false, appends exactly two entries to the transcript, the
   rendered user message and then a placeholder, empties the textarea, sets
   waiting, and returns exactly one GetResponseCmd, which carries that
   message. *)
C17_ValidSubmit ==
    (/\ IsEnter(last.msg)
     /\ ~last.before.waiting
     /\ TrimSpace(last.before.textarea) # <<>>) =>
        /\ m.messages = last.before.messages \o
                           <<PromptEntry(Submitted(last.before)),
                             SpinnerEntry(last.before.spinner)>>
        /\ IsUserEntry(m.messages[Len(m.messages) - 1])
        /\ IsPlaceholder(m.messages[Len(m.messages)])
        /\ m.textarea = <<>>
        /\ m.waiting
        /\ ResponseCmds(last.cmds) = {GetResponseCmd(Submitted(last.before))}

C17_Witness ==
    /\ IsEnter(last.msg)
    /\ ~last.before.waiting
    /\ last.before.textarea = <<" ", "a">>
    /\ Len(m.messages) = 2
    /\ m.waiting
    /\ Len(tasks) = 1
    /\ tasks[1].message = <<"a">>

\* chatMessages holds the user entry of completion t and, right after it, the
\* assistant entry with its reply
HistoryHoldsTurn(t) ==
    \E k \in 1..(Len(chatMessages) - 1) :
        /\ chatMessages[k] = [Role |-> "user", Content |-> t.message]
        /\ chatMessages[k + 1] = [Role |-> "assistant", Content |-> t.choices[1]]

\* the state Update leaves on a responseMsg without error: e is the transcript
\* it was given
ReplyProcessed(e) ==
    /\ ~m.waiting
    /\ Len(m.messages) = Len(e)
    /\ m.messages # <<>>
    /\ m.messages[Len(m.messages)] =
          ResponseEntry(WordWrap(last.msg.message, viewportTextWidth - 3))
    /\ \E i \in Completed :
          /\ ResponseOf(tasks[i]) = last.msg
          /\ HistoryHoldsTurn(tasks[i])

(* C18: in the step in which Update processes a responseMsg without error,
   waiting becomes false, the transcript keeps its length, its last entry
   becomes the rendered reply, and chatMessages holds the reply as the
   assistant entry that follows the user entry of that completion. *)
C18_ReplyResult ==
    [][(nEvents' # nEvents /\ last'.msg.type = "response" /\ last'.msg.err = NoErr) =>
          ReplyProcessed(m.messages)']_vars

(* C19: a TickMsg of the chat spinner processed while waiting is true advances
   the chat spinner by one frame, replaces the last entry of the transcript by
   the placeholder with the new frame, leaves the length and every earlier
   entry as they were, and returns the chat spinner's next tick. *)
C19_ChatTickAdvancesOne ==
    (IsChatTick(last.msg, last.before) /\ last.before.waiting) =>
        /\ m.spinner.frame = (last.before.spinner.frame + 1) % MiniDotFrames
        /\ Len(m.messages) = Len(last.before.messages)
        /\ \A i \in 1..(Len(m.messages) - 1) : m.messages[i] = last.before.messages[i]
        /\ m.messages[Len(m.messages)] = SpinnerEntry(m.spinner)
        /\ TickCmds(last.cmds) = {TickCmd(m.spinner)}

\* the step in which Update processes a statusMsg with an error
StatusErrorStep ==
    /\ nEvents' # nEvents
    /\ last'.msg.type = "status"
    /\ last'.msg.err # NoErr

(* C20, as the specification states it: processing a statusMsg with an error
   makes the header status failed and changes nothing else, neither in the
   model nor in chatMessages, and returns no command. *)
C20_FailedProbeHeaderOnly ==
    [][StatusErrorStep =>
          /\ HeaderStatus(m') = "failed"
          /\ m' = [m EXCEPT !.header = m'.header]
          /\ m'.header.statusSpinner = m.header.statusSpinner
          /\ chatMessages' = chatMessages
          /\ last'.cmds = {}]_vars

(* C20, amended: processing a statusMsg with an error makes the header status
   failed unless it is succeeded already, which it then stays; it stores the
   error in m.err, changes nothing else in the model (transcript, waiting,
   textarea, viewport, both spinners) nor in chatMessages, and returns no
   command. *)
C20_FailedProbeResult ==
    [][StatusErrorStep =>
          /\ HeaderStatus(m') =
                IF HeaderStatus(m) = "succeeded" THEN "succeeded" ELSE "failed"
          /\ m' = [m EXCEPT !.header.requestDone = TRUE, !.err = last'.msg.err]
          /\ chatMessages' = chatMessages
          /\ last'.cmds = {}]_vars

C20_Witness ==
    /\ last.msg.type = "status"
    /\ last.msg.err = "statusErr"
    /\ HeaderStatus(last.before) = "pending"
    /\ HeaderStatus(m) = "failed"
    /\ m.err = "statusErr"
    /\ m.waiting
    /\ Len(m.messages) = 2

(* C21: once the transcript has been written, the viewport's content is the
   rendering of the current transcript: what UpdateViewport derives from
   m.messages. *)
C21_ViewportIsRenderedTranscript ==
    m.messages # <<>> => m.viewport = UpdateViewport(m).viewport

C21_Witness ==
    /\ IsChatTick(last.msg, last.before)
    /\ last.before.waiting
    /\ m.messages # last.before.messages
    /\ m.viewport # last.before.viewport
    /\ m.viewport = UpdateViewport(m).viewport

\* the transcript index of the user entry of the i-th completion dispatched:
\* every enter key appends two entries and nothing else changes the length
UserIndex(i) == 2 * i - 1

(* C22: when the responseMsg without error of a completion has been processed,
   its rendered reply is the entry right after the user entry that dispatched
   it, and every other entry is as it was, in whatever order the responseMsgs
   arrive. *)
C22_ReplyNextToItsPrompt ==
    (Alive /\ last.msg.type = "response" /\ last.msg.err = NoErr) =>
        \E i \in Completed :
            /\ ResponseOf(tasks[i]) = last.msg
            /\ UserIndex(i) + 1 \in DOMAIN m.messages
            /\ m.messages[UserIndex(i) + 1] =
                  ResponseEntry(WordWrap(last.msg.message, viewportTextWidth - 3))
            /\ \A j \in DOMAIN m.messages \ {UserIndex(i) + 1} :
                  m.messages[j] = last.before.messages[j]

\* the TickMsgs in flight that carry the ID of spinner s, counted with their
\* multiplicity
TicksPending(s) ==
    BagCardinality([t \in {x \in BagToSet(ticks) : x.ID = s.id} |-> ticks[t]])

(* C23: at most one TickMsg of the chat spinner is in flight at any time. *)
C23_OneChatTickPending ==
    TicksPending(m.spinner) <= 1

(* C24: a TickMsg of the chat spinner processed while waiting is true leaves
   the textarea's value as it was. *)
C24_ChatTickKeepsInput ==
    (IsChatTick(last.msg, last.before) /\ last.before.waiting) =>
        m.textarea = last.before.textarea

(* C25: whenever Update processes a responseMsg, or a TickMsg of the chat
   spinner while waiting is true, the transcript it is given is not empty:
   the replacement of the last entry is never out of range. *)
C25_ReplaceLastInRange ==
    (\/ last.msg.type = "response"
     \/ IsChatTick(last.msg, last.before) /\ last.before.waiting) =>
        /\ last.before.messages # <<>>
        /\ ~Update(last.before, last.msg).panic

C25_Witness ==
    /\ last.msg.type = "response"
    /\ last.msg.err = NoErr
    /\ Len(last.before.messages) = 2
    /\ IsPlaceholder(last.before.messages[2])
    /\ m.messages[2] = ResponseEntry(WordWrap(last.msg.message, viewportTextWidth - 3))
    /\ run = "running"

(* C26: when a responseMsg has been processed, in the end no TickMsg of the
   chat spinner is in flight, unless a submit sets waiting again; when a
   statusMsg has been processed, in the end no TickMsg of the header spinner
   is in flight. *)
C26_TickChainsTerminate ==
    /\ (last.msg.type = "response") ~> (m.waiting \/ TicksPending(m.spinner) = 0)
    /\ m.header.requestDone ~> (TicksPending(m.header.statusSpinner) = 0)

C26_Witness ==
    /\ run = "running"
    /\ last.msg.type = "tick"
    /\ last.cmds = {}
    /\ Completed # {}
    /\ ~m.waiting
    /\ m.header.requestDone
    /\ TicksPending(m.spinner) = 0
    /\ TicksPending(m.header.statusSpinner) = 0

\* the key of msg was inserted into the textarea
Inserted(msg, before, after) ==
    /\ msg.type = "key"
    /\ after.textarea = Append(before.textarea, msg.key)

(* C27: a key that inserts a character into the textarea never ends the
   program: Update returns no tea.Quit for it. *)
C27_TypingNeverQuits ==
    Inserted(last.msg, last.before, m) => QuitCmd \notin last.cmds

====
